---- MODULE Spec2Model ----
(***************************************************************************)
(* Model of speedtest_tool v2.5: the ASCII progress reporter               *)
(* (ui_ascii.ASCIIProgress), the orchestrator run_with_ascii_progress and  *)
(* the measurement client core.SpeedTester.                                *)
(*                                                                         *)
(* Python threads are processes with a program counter; one action is one  *)
(* statement (or one atomic library call) of the source, so that every     *)
(* interleaving the interpreter can produce between two statements of      *)
(* different threads is a behaviour of the model.                          *)
(***************************************************************************)
EXTENDS Integers, Sequences, FiniteSets, TLC

\* ---------------------------------------------------------------- bounds
\* Thread objects one reporter instance may create (one per start()).
MaxThreads == 2
\* start()/stop() calls the reporter's direct caller issues.
MaxCalls == 3
\* The count of progress lines written saturates here.
MaxWritten == 2

\* ------------------------------------------------------------ value sets
\* Optional values: None is the empty sequence, a present value v is <<v>>.
None == <<>>
Some(v) == <<v>>

\* What the supplied operation can return, and the errors it can raise.
ResVals == {"r1", "r2"}
ErrVals == {"ValueError", "ConfigRetrievalError"}

\* Threads of the reporter and its callers.
Procs == {"main", "worker", "caller"}
TickIds == 1 .. MaxThreads

VARIABLES
    pc,          \* position of main, worker (orchestrator) and caller (direct use)
    stopFlag,    \* ASCIIProgress._stop (threading.Event)
    thread,      \* ASCIIProgress._thread: 0 is None, else the Thread object's id
    tstate,      \* per Thread object: "none" (not created), "new", "poll", "write", "done"
    nthreads,    \* Thread objects created so far
    written,     \* progress lines written to the terminal (saturating)
    term,        \* what the terminal line shows: "clean", "progress"
    result,      \* run_with_ascii_progress's result dict
    outcome,     \* how func ended: "pending", "returned", "raised"
    retval,      \* what run_with_ascii_progress returned (None before it returns)
    stopReturns, \* calls of stop() that have returned
    stopRaised,  \* a call of stop() raised (RuntimeError from Thread.join)
    calls,       \* the start()/stop() calls the direct caller has issued, in order
    funcVal,     \* the value func returned or the error it raised (None while pending)
    \* ---- core.SpeedTester
    rpc,          \* position of the thread executing SpeedTester.run
    mode,         \* run's mode argument after lower()
    runs,         \* calls of run() so far
    stCached,     \* SpeedTester._st is not None
    preferTop,    \* SpeedTester.prefer_nearby_top
    servers,      \* server_list of _init_speedtest (flattened)
    chosen,       \* the candidate handed to get_best_server([chosen]) (None if none)
    best,         \* the collaborator's selected server: <<>>, <<"default">>, <<"server", id>>
    results,      \* run's results dict under construction
    download_out, \* download_out.get('bits') (None when the key is missing)
    upload_out,   \* upload_out.get('bits')
    dthread,      \* d_thread: "none", "running", "done"
    uthread,      \* u_thread: "none", "running", "done"
    ret,          \* how the last run() ended: None, <<"returned", dict>>, <<"raised", error>>
    failures,     \* collaborator operations that failed during the current run
    attempts,     \* probe invocations during the current run
    ncalls,       \* collaborator calls over the SpeedTester's lifetime
    initRun,      \* the run during which the client was created and cached (0: not yet)
    listed,       \* what get_servers returned: None, or <<[n, withd]>>, the numbers
                  \* of entries and of entries with a distance
    probed,       \* what each probe did during the current run: bits returned,
                  \* message raised (both None before the probe)
    \* ---- cli_v2.main
    cpc,          \* position of the CLI loop
    argsMode,     \* args.mode
    iters,        \* iterations of the loop started
    shown,        \* what the loop has printed in the current iteration
    orphan,       \* a tick loop of an earlier iteration's reporter is still alive
    \* ---- ui_ascii.quality_ratings
    qargs,        \* the arguments of quality_ratings
    ratings       \* its return value (None before the call)

uiVars == <<pc, stopFlag, thread, tstate, nthreads, written, term, result,
            outcome, retval, stopReturns, stopRaised, calls, funcVal>>

coreVars == <<rpc, mode, runs, stCached, preferTop, servers, chosen, best,
              results, download_out, upload_out, dthread, uthread, ret,
              failures, attempts, ncalls, initRun, listed, probed>>

cliVars == <<cpc, argsMode, iters, shown, orphan>>

qualVars == <<qargs, ratings>>

extVars == <<cliVars, qualVars>>

vars == <<uiVars, coreVars, extVars>>

reporterVars == <<stopFlag, thread, tstate, nthreads, written, term>>
orchVars == <<result, outcome, retval, funcVal>>

Min(a, b) == IF a < b THEN a ELSE b

\* The empty dict.
EmptyDict == [k \in {} |-> None]

\* d[k] = v on a dict.
DictSet(d, k, v) == [x \in (DOMAIN d) \cup {k} |-> IF x = k THEN v ELSE d[x]]

\* Neither probe has run.
NotProbed ==
    [download |-> [bits |-> None, msg |-> None],
     upload |-> [bits |-> None, msg |-> None]]

\* The results dict of run(), lines 78-85.
InitResults ==
    [download_bps |-> None, upload_bps |-> None, ping_ms |-> None,
     server |-> None, client |-> None, errors |-> EmptyDict]

\* No SpeedTester is in use (the specifications of the progress reporter).
CoreOff ==
    /\ rpc = "off"
    /\ mode = "basic"
    /\ runs = 0
    /\ stCached = FALSE
    /\ preferTop = 1
    /\ servers = <<>>
    /\ chosen = None
    /\ best = <<>>
    /\ results = InitResults
    /\ download_out = None
    /\ upload_out = None
    /\ dthread = "none"
    /\ uthread = "none"
    /\ ret = None
    /\ failures = {}
    /\ attempts = [download |-> 0, upload |-> 0]
    /\ ncalls = [create |-> 0, get_servers |-> 0, best_seeded |-> 0, best_default |-> 0]
    /\ initRun = 0
    /\ listed = None
    /\ probed = NotProbed

\* Neither the CLI loop nor quality_ratings is in use.
ExtOff ==
    /\ cpc = "off"
    /\ argsMode = "basic"
    /\ iters = 0
    /\ shown = <<>>
    /\ orphan = FALSE
    /\ qargs = [dl |-> None, ul |-> None, ping |-> None]
    /\ ratings = None

\* --------------------------------------------------------- ASCIIProgress
\* ASCIIProgress.__init__: the flag is clear and there is no thread.
ProgressInit ==
    /\ stopFlag = FALSE
    /\ thread = 0
    /\ tstate = [t \in TickIds |-> "none"]
    /\ nthreads = 0
    /\ written = 0
    /\ term = "clean"

\* Where a thread continues after start() returns.
AfterStart(self) == IF self = "main" THEN "m_join" ELSE "c_idle"

\* Where a thread continues after stop() returns or raises. The worker's
\* finally block swallows the exception; both ways it is finished.
AfterStop(self) == IF self = "worker" THEN "w_done" ELSE "c_idle"

\* start(), line 41: self._stop.clear()
StartClear(self) ==
    /\ pc[self] = "start_clear"
    /\ stopFlag' = FALSE
    /\ pc' = [pc EXCEPT ![self] = "start_new"]
    /\ UNCHANGED <<thread, tstate, nthreads, written, term, orchVars,
                   stopReturns, stopRaised, calls, coreVars, extVars>>

\* start(), line 42: self._thread = threading.Thread(target=self._run)
StartNew(self) ==
    /\ pc[self] = "start_new"
    /\ nthreads < MaxThreads
    /\ nthreads' = nthreads + 1
    /\ thread' = nthreads + 1
    /\ tstate' = [tstate EXCEPT ![nthreads + 1] = "new"]
    /\ pc' = [pc EXCEPT ![self] = "start_run"]
    /\ UNCHANGED <<stopFlag, written, term, orchVars, stopReturns, stopRaised, calls, coreVars, extVars>>

\* start(), line 43: self._thread.start(); the tick loop begins at its poll.
StartRun(self) ==
    /\ pc[self] = "start_run"
    /\ thread # 0
    /\ tstate[thread] = "new"
    /\ tstate' = [tstate EXCEPT ![thread] = "poll"]
    /\ pc' = [pc EXCEPT ![self] = AfterStart(self)]
    /\ UNCHANGED <<stopFlag, thread, nthreads, written, term, orchVars,
                   stopReturns, stopRaised, calls, coreVars, extVars>>

\* stop(), line 46: self._stop.set()
StopSet(self) ==
    /\ pc[self] = "stop_set"
    /\ stopFlag' = TRUE
    /\ pc' = [pc EXCEPT ![self] = "stop_test"]
    /\ UNCHANGED <<thread, tstate, nthreads, written, term, orchVars,
                   stopReturns, stopRaised, calls, coreVars, extVars>>

\* stop() without the test of line 47: it joins whatever self._thread holds.
StopTest_nocheck(self) ==
    /\ pc[self] = "stop_test"
    /\ pc' = [pc EXCEPT ![self] = "stop_join"]
    /\ UNCHANGED <<reporterVars, orchVars, stopReturns, stopRaised, calls, coreVars, extVars>>

\* stop(), line 47: if self._thread:
StopTest(self) ==
    /\ pc[self] = "stop_test"
    /\ pc' = [pc EXCEPT ![self] = IF thread # 0 THEN "stop_join" ELSE "stop_erase"]
    /\ UNCHANGED <<reporterVars, orchVars, stopReturns, stopRaised, calls, coreVars, extVars>>

\* stop(), line 48: self._thread.join() returns once the thread has ended;
\* it blocks while the thread is alive.
StopJoin(self) ==
    /\ pc[self] = "stop_join"
    /\ thread # 0
    /\ tstate[thread] = "done"
    /\ pc' = [pc EXCEPT ![self] = "stop_erase"]
    /\ UNCHANGED <<reporterVars, orchVars, stopReturns, stopRaised, calls, coreVars, extVars>>

\* stop(), line 48: Thread.join() on a thread that was created but not yet
\* started raises RuntimeError; stop() is left without erasing the line.
StopJoinRaise(self) ==
    /\ pc[self] = "stop_join"
    /\ thread # 0
    /\ tstate[thread] = "new"
    /\ stopRaised' = TRUE
    /\ pc' = [pc EXCEPT ![self] = AfterStop(self)]
    /\ UNCHANGED <<reporterVars, orchVars, stopReturns, calls, coreVars, extVars>>

\* stop(), lines 50-51: erase the progress line, then return.
StopErase(self) ==
    /\ pc[self] = "stop_erase"
    /\ term' = "clean"
    /\ stopReturns' = stopReturns + 1
    /\ pc' = [pc EXCEPT ![self] = AfterStop(self)]
    /\ UNCHANGED <<stopFlag, thread, tstate, nthreads, written, orchVars,
                   stopRaised, calls, coreVars, extVars>>

\* _run() with a loop that never tests the flag (while True).
TickPoll_blind(t) ==
    /\ tstate[t] = "poll"
    /\ tstate' = [tstate EXCEPT ![t] = "write"]
    /\ UNCHANGED <<pc, stopFlag, thread, nthreads, written, term, orchVars,
                   stopReturns, stopRaised, calls, coreVars, extVars>>

\* _run(), line 58: while not self._stop.is_set()
TickPoll(t) ==
    /\ tstate[t] = "poll"
    /\ tstate' = [tstate EXCEPT ![t] = IF stopFlag THEN "done" ELSE "write"]
    /\ UNCHANGED <<pc, stopFlag, thread, nthreads, written, term, orchVars,
                   stopReturns, stopRaised, calls, coreVars, extVars>>

\* _run(), lines 59-77: render and write one progress line, sleep 0.2 s.
TickWrite(t) ==
    /\ tstate[t] = "write"
    /\ written' = Min(written + 1, MaxWritten)
    /\ term' = "progress"
    /\ tstate' = [tstate EXCEPT ![t] = "poll"]
    /\ UNCHANGED <<pc, stopFlag, thread, nthreads, orchVars,
                   stopReturns, stopRaised, calls, coreVars, extVars>>

Tick == \E t \in TickIds : TickPoll(t) \/ TickWrite(t)

\* ---------------------------------------------- run_with_ascii_progress
\* Lines 88-89 and 101: prog, result = {} and the worker thread object exist.
OrchInit ==
    /\ ProgressInit
    /\ pc = [p \in Procs |-> CASE p = "main" -> "m_spawn"
                               [] p = "worker" -> "w_new"
                               [] OTHER -> "off"]
    /\ result = EmptyDict
    /\ outcome = "pending"
    /\ retval = None
    /\ stopReturns = 0
    /\ stopRaised = FALSE
    /\ calls = <<>>
    /\ funcVal = None
    /\ CoreOff
    /\ ExtOff

\* Line 102: th.start()
MainSpawn ==
    /\ pc["main"] = "m_spawn"
    /\ pc' = [pc EXCEPT !["main"] = "m_start", !["worker"] = "w_func"]
    /\ UNCHANGED <<reporterVars, orchVars, stopReturns, stopRaised, calls, coreVars, extVars>>

\* Line 103: prog.start()
MainStart ==
    /\ pc["main"] = "m_start"
    /\ pc' = [pc EXCEPT !["main"] = "start_clear"]
    /\ UNCHANGED <<reporterVars, orchVars, stopReturns, stopRaised, calls, coreVars, extVars>>

\* What target() stores when func returns r (lines 92-93).
TargetReturned(res, r) == DictSet(res, "res", r)

\* target() without its except clause: the error is lost.
TargetRaised_lost(res, e) == res

\* What target() stores when func raises e (lines 94-95).
TargetRaised(res, e) == DictSet(res, "err", e)

\* Lines 92-93: func() returns r; result['res'] = r.
WorkerFuncReturns ==
    /\ pc["worker"] = "w_func"
    /\ \E r \in ResVals : /\ result' = TargetReturned(result, r)
                         /\ funcVal' = Some(r)
    /\ outcome' = "returned"
    /\ pc' = [pc EXCEPT !["worker"] = "w_finally"]
    /\ UNCHANGED <<reporterVars, retval, stopReturns, stopRaised, calls, coreVars, extVars>>

\* Lines 92, 94-95: func() raises e; result['err'] = e.
WorkerFuncRaises ==
    /\ pc["worker"] = "w_func"
    /\ \E e \in ErrVals : /\ result' = TargetRaised(result, e)
                         /\ funcVal' = Some(e)
    /\ outcome' = "raised"
    /\ pc' = [pc EXCEPT !["worker"] = "w_finally"]
    /\ UNCHANGED <<reporterVars, retval, stopReturns, stopRaised, calls, coreVars, extVars>>

\* Lines 96-98: finally: prog.stop()
WorkerFinally ==
    /\ pc["worker"] = "w_finally"
    /\ pc' = [pc EXCEPT !["worker"] = "stop_set"]
    /\ UNCHANGED <<reporterVars, orchVars, stopReturns, stopRaised, calls, coreVars, extVars>>

\* run_with_ascii_progress without the wait of line 104.
MainJoin_nowait ==
    /\ pc["main"] = "m_join"
    /\ pc' = [pc EXCEPT !["main"] = "m_ret"]
    /\ UNCHANGED <<reporterVars, orchVars, stopReturns, stopRaised, calls, coreVars, extVars>>

\* Line 104: th.join() returns once the worker has ended.
MainJoin ==
    /\ pc["main"] = "m_join"
    /\ pc["worker"] = "w_done"
    /\ pc' = [pc EXCEPT !["main"] = "m_ret"]
    /\ UNCHANGED <<reporterVars, orchVars, stopReturns, stopRaised, calls, coreVars, extVars>>

\* Line 105: return result
MainReturn ==
    /\ pc["main"] = "m_ret"
    /\ retval' = Some(result)
    /\ pc' = [pc EXCEPT !["main"] = "returned"]
    /\ UNCHANGED <<reporterVars, result, outcome, funcVal, stopReturns, stopRaised, calls, coreVars, extVars>>

Main == MainSpawn \/ MainStart \/ StartClear("main") \/ StartNew("main")
          \/ StartRun("main") \/ MainJoin \/ MainReturn

Worker == WorkerFuncReturns \/ WorkerFuncRaises \/ WorkerFinally
            \/ StopSet("worker") \/ StopTest("worker") \/ StopJoin("worker")
            \/ StopJoinRaise("worker") \/ StopErase("worker")

OrchNext == Main \/ Worker \/ Tick

\* run_with_ascii_progress called once, every interleaving of its threads.
OrchSpec == OrchInit /\ [][OrchNext]_vars

\* The interpreter schedules every runnable thread again and again.
FairOrchSpec == OrchSpec /\ WF_vars(Main) /\ WF_vars(Worker)
                  /\ \A t \in TickIds : WF_vars(TickPoll(t) \/ TickWrite(t))

\* Line 104: KeyboardInterrupt is raised in the calling thread while it
\* waits in th.join(); nothing in run_with_ascii_progress catches it, so the
\* call unwinds. The worker and the tick loop are daemon threads and run on.
MainInterrupt ==
    /\ pc["main"] = "m_join"
    /\ pc' = [pc EXCEPT !["main"] = "interrupted"]
    /\ UNCHANGED <<reporterVars, orchVars, stopReturns, stopRaised, calls, coreVars, extVars>>

InterruptNext == OrchNext \/ MainInterrupt

\* run_with_ascii_progress with a user interrupt possible during the wait.
InterruptSpec == OrchInit /\ [][InterruptNext]_vars

\* ------------------------------------------- the reporter used directly
\* A fresh ASCIIProgress and one thread that calls its methods one after
\* the other, in any order.
ReporterInit ==
    /\ ProgressInit
    /\ pc = [p \in Procs |-> IF p = "caller" THEN "c_idle" ELSE "off"]
    /\ result = EmptyDict
    /\ outcome = "pending"
    /\ retval = None
    /\ funcVal = None
    /\ stopReturns = 0
    /\ stopRaised = FALSE
    /\ calls = <<>>
    /\ CoreOff
    /\ ExtOff

\* The caller calls prog.start().
CallerStart ==
    /\ pc["caller"] = "c_idle"
    /\ Len(calls) < MaxCalls
    /\ nthreads < MaxThreads
    /\ calls' = Append(calls, "start")
    /\ pc' = [pc EXCEPT !["caller"] = "start_clear"]
    /\ UNCHANGED <<reporterVars, orchVars, stopReturns, stopRaised, coreVars, extVars>>

\* The caller calls prog.stop().
CallerStop ==
    /\ pc["caller"] = "c_idle"
    /\ Len(calls) < MaxCalls
    /\ calls' = Append(calls, "stop")
    /\ pc' = [pc EXCEPT !["caller"] = "stop_set"]
    /\ UNCHANGED <<reporterVars, orchVars, stopReturns, stopRaised, coreVars, extVars>>

\* With one caller a thread is always started before stop() can join it, so
\* StopJoinRaise is never enabled here and is left out of the disjunction.
Caller == CallerStart \/ CallerStop
            \/ StartClear("caller") \/ StartNew("caller") \/ StartRun("caller")
            \/ StopSet("caller") \/ StopTest("caller") \/ StopJoin("caller")
            \/ StopErase("caller")

ReporterNext == Caller \/ Tick

ReporterSpec == ReporterInit /\ [][ReporterNext]_vars

\* ------------------------------------------------------ core.SpeedTester
\* bounds
\* Entries of the discovered server list.
MaxServers == 2
\* Calls of run() on one SpeedTester.
MaxRuns == 2
\* The largest --nearby argument tried.
MaxNearby == 2

\* Inputs: mode arguments, distances, probe readings, error texts, pings.
ModeArgs == {"basic", "advance", "BASIC", "extended"}
Dists == {None, Some(1), Some(2)}
BitsVals == {0, 50000000}
Msgs == {"timeout", "refused"}
PingVals == {None, Some(0), Some(20)}
ServerDescs == {None, Some("srv")}
ClientDescs == {None, Some("cli")}
RsKinds == {"raises", "object", "method", "method_raises", "dict"}

Max(a, b) == IF a > b THEN a ELSE b

\* SpeedTester.__init__, line 20.
PreferNearbyTop(n) == Max(1, n)

\* str.lower() on the mode arguments (line 70).
Lower(m) == CASE m = "BASIC" -> "basic"
              [] OTHER -> m

\* Line 71.
ValidMode(m) == m \in {"basic", "advance"}

\* float() of a number keeps its value (lines 47, 116, 118).
Float(x) == x

\* Lines 40-42: the lists of the servers dict, concatenated in dict order.
RECURSIVE Flatten(_)
Flatten(groups) ==
    IF groups = <<>> THEN <<>>
    ELSE Head(groups) \o Flatten(Tail(groups))

\* Line 45: the entries whose 'd' is not None, in list order.
RECURSIVE WithDistance(_)
WithDistance(list) ==
    IF list = <<>> THEN <<>>
    ELSE IF Head(list).d # None
         THEN <<Head(list)>> \o WithDistance(Tail(list))
         ELSE WithDistance(Tail(list))

\* Where list.sort puts x in an already sorted list: after every entry whose
\* distance is not larger (the sort is stable).
RECURSIVE InsertByDistance(_, _)
InsertByDistance(list, x) ==
    IF list = <<>> THEN <<x>>
    ELSE IF Float(Head(list).d[1]) <= Float(x.d[1])
         THEN <<Head(list)>> \o InsertByDistance(Tail(list), x)
         ELSE <<x>> \o list

\* The list left in discovery order, as if line 47 were missing.
SortByDistance_unsorted(list) == list

\* Line 47: with_distance.sort(key=lambda x: float(x.get('d', 1e9)))
RECURSIVE SortByDistance(_)
SortByDistance(list) ==
    IF list = <<>> THEN <<>>
    ELSE InsertByDistance(SortByDistance(SubSeq(list, 1, Len(list) - 1)),
                          list[Len(list)])

\* Line 48: with_distance[: self.prefer_nearby_top]
Top(list, n) == SubSeq(list, 1, Min(n, Len(list)))

\* The servers dict get_servers returns: the entries 1..n with the
\* distances ds, in two lists split after entry k.
ServersDict(ds, k) ==
    LET all == [i \in 1 .. Len(ds) |-> [id |-> i, d |-> ds[i]]]
    IN  <<SubSeq(all, 1, k), SubSeq(all, k + 1, Len(ds))>>

DistLists == UNION {[1 .. n -> Dists] : n \in 0 .. MaxServers}

\* A fresh SpeedTester (lines 19-21), built from the --nearby argument.
CoreInit ==
    /\ rpc = "idle"
    /\ mode = "basic"
    /\ runs = 0
    /\ stCached = FALSE
    /\ preferTop \in {PreferNearbyTop(n) : n \in 0 .. MaxNearby}
    /\ servers = <<>>
    /\ chosen = None
    /\ best = <<>>
    /\ results = InitResults
    /\ download_out = None
    /\ upload_out = None
    /\ dthread = "none"
    /\ uthread = "none"
    /\ ret = None
    /\ failures = {}
    /\ attempts = [download |-> 0, upload |-> 0]
    /\ ncalls = [create |-> 0, get_servers |-> 0, best_seeded |-> 0, best_default |-> 0]
    /\ initRun = 0
    /\ listed = None
    /\ probed = NotProbed

\* No progress reporter is in use (the specification of the SpeedTester).
UiOff ==
    /\ ProgressInit
    /\ pc = [p \in Procs |-> "off"]
    /\ result = EmptyDict
    /\ outcome = "pending"
    /\ retval = None
    /\ funcVal = None
    /\ stopReturns = 0
    /\ stopRaised = FALSE
    /\ calls = <<>>

\* What a call of run() starts from: nothing of the previous call is left
\* but the SpeedTester's fields and the dicts the previous call built.
RunEntry(m) ==
    /\ rpc = "idle"
    /\ runs < MaxRuns
    /\ runs' = runs + 1
    /\ mode' = Lower(m)
    /\ failures' = {}
    /\ attempts' = [download |-> 0, upload |-> 0]
    /\ dthread' = "none"
    /\ uthread' = "none"
    /\ probed' = NotProbed

\* Lines 70-72: an invalid mode raises ValueError.
RunInvalidMode ==
    \E m \in ModeArgs :
        /\ RunEntry(m)
        /\ ~ValidMode(Lower(m))
        /\ ret' = <<"raised", "ValueError">>
        /\ rpc' = "idle"
        /\ UNCHANGED <<uiVars, extVars, stCached, preferTop, servers, chosen, best, results,
                       download_out, upload_out, ncalls, initRun, listed>>

\* run() without the test of line 74: _init_speedtest runs in every call.
RunValidMode_nocache ==
    \E m \in ModeArgs :
        /\ RunEntry(m)
        /\ ValidMode(Lower(m))
        /\ ret' = None
        /\ rpc' = "init_create"
        /\ UNCHANGED <<uiVars, extVars, stCached, preferTop, servers, chosen, best, results,
                       download_out, upload_out, ncalls, initRun, listed>>

\* Lines 70-75: a valid mode; _init_speedtest runs if self._st is None.
RunValidMode ==
    \E m \in ModeArgs :
        /\ RunEntry(m)
        /\ ValidMode(Lower(m))
        /\ ret' = None
        /\ rpc' = IF stCached THEN "run_begin" ELSE "init_create"
        /\ UNCHANGED <<uiVars, extVars, stCached, preferTop, servers, chosen, best, results,
                       download_out, upload_out, ncalls, initRun, listed>>

\* Lines 25-26: speedtest.Speedtest() succeeds and is cached in self._st.
InitCreateOk ==
    /\ rpc = "init_create"
    /\ stCached' = TRUE
    /\ ncalls' = [ncalls EXCEPT !.create = @ + 1]
    /\ initRun' = runs
    /\ rpc' = "init_servers"
    /\ UNCHANGED <<uiVars, extVars, probed, mode, runs, preferTop, servers, chosen, best, results,
                   download_out, upload_out, dthread, uthread, ret, failures,
                   attempts, listed>>

\* Line 25: speedtest.Speedtest() raises; nothing catches it and run() raises.
InitCreateFails ==
    /\ rpc = "init_create"
    /\ ncalls' = [ncalls EXCEPT !.create = @ + 1]
    /\ failures' = failures \cup {"create"}
    /\ ret' = <<"raised", "ConfigRetrievalError">>
    /\ rpc' = "idle"
    /\ UNCHANGED <<uiVars, extVars, probed, mode, runs, stCached, preferTop, servers, chosen, best,
                   results, download_out, upload_out, dthread, uthread, attempts,
                   initRun, listed>>

\* Lines 30, 40-42: get_servers() returns a dict, which is flattened.
InitGetServersOk ==
    /\ rpc = "init_servers"
    /\ \E ds \in DistLists : \E k \in 0 .. Len(ds) :
           LET list == Flatten(ServersDict(ds, k))
           IN  /\ servers' = list
               /\ listed' = Some([n |-> Len(list), withd |-> Len(WithDistance(list))])
    /\ ncalls' = [ncalls EXCEPT !.get_servers = @ + 1]
    /\ rpc' = "init_pick"
    /\ UNCHANGED <<uiVars, extVars, probed, mode, runs, stCached, preferTop, chosen, best, results,
                   download_out, upload_out, dthread, uthread, ret, failures,
                   attempts, initRun>>

\* Lines 30-32: get_servers() raises; the default selection is tried.
InitGetServersFails ==
    /\ rpc = "init_servers"
    /\ ncalls' = [ncalls EXCEPT !.get_servers = @ + 1]
    /\ failures' = failures \cup {"get_servers"}
    /\ rpc' = "init_default"
    /\ UNCHANGED <<uiVars, extVars, probed, mode, runs, stCached, preferTop, servers, chosen, best,
                   results, download_out, upload_out, dthread, uthread, ret,
                   attempts, initRun, listed>>

\* Lines 45-49: one of the nearest prefer_nearby_top entries with a distance
\* is chosen at random.
InitPick ==
    /\ rpc = "init_pick"
    /\ WithDistance(servers) # <<>>
    /\ LET top == Top(SortByDistance(WithDistance(servers)), preferTop)
       IN  \E i \in 1 .. Len(top) : chosen' = Some(top[i])
    /\ rpc' = "init_seeded"
    /\ UNCHANGED <<uiVars, extVars, probed, mode, runs, stCached, preferTop, servers, best, results,
                   download_out, upload_out, dthread, uthread, ret, failures,
                   attempts, ncalls, initRun, listed>>

\* Lines 45-46, 59: no entry has a distance; the default selection is tried.
InitNoDistance ==
    /\ rpc = "init_pick"
    /\ WithDistance(servers) = <<>>
    /\ rpc' = "init_default"
    /\ UNCHANGED <<uiVars, extVars, probed, mode, runs, stCached, preferTop, servers, chosen, best,
                   results, download_out, upload_out, dthread, uthread, ret,
                   failures, attempts, ncalls, initRun, listed>>

\* Line 52: st.get_best_server([chosen]) succeeds; _init_speedtest returns.
InitSeededOk ==
    /\ rpc = "init_seeded"
    /\ best' = <<"server", chosen[1].id>>
    /\ ncalls' = [ncalls EXCEPT !.best_seeded = @ + 1]
    /\ servers' = <<>>
    /\ chosen' = None
    /\ rpc' = "run_begin"
    /\ UNCHANGED <<uiVars, extVars, probed, mode, runs, stCached, preferTop, results,
                   download_out, upload_out, dthread, uthread, ret, failures,
                   attempts, initRun, listed>>

\* Lines 52-54: st.get_best_server([chosen]) raises; the default is tried.
InitSeededFails ==
    /\ rpc = "init_seeded"
    /\ ncalls' = [ncalls EXCEPT !.best_seeded = @ + 1]
    /\ failures' = failures \cup {"best_seeded"}
    /\ rpc' = "init_default"
    /\ UNCHANGED <<uiVars, extVars, probed, mode, runs, stCached, preferTop, servers, chosen, best,
                   results, download_out, upload_out, dthread, uthread, ret,
                   attempts, initRun, listed>>

\* Lines 33-34, 55-56, 60-61: st.get_best_server() succeeds.
InitDefaultOk ==
    /\ rpc = "init_default"
    /\ best' = <<"default">>
    /\ ncalls' = [ncalls EXCEPT !.best_default = @ + 1]
    /\ servers' = <<>>
    /\ chosen' = None
    /\ rpc' = "run_begin"
    /\ UNCHANGED <<uiVars, extVars, probed, mode, runs, stCached, preferTop, results,
                   download_out, upload_out, dthread, uthread, ret, failures,
                   attempts, initRun, listed>>

\* _init_speedtest without the inner except clauses: a failure of the
\* default selection leaves run() as an exception.
InitDefaultFails_raises ==
    /\ rpc = "init_default"
    /\ ncalls' = [ncalls EXCEPT !.best_default = @ + 1]
    /\ failures' = failures \cup {"best_default"}
    /\ ret' = <<"raised", "SpeedtestBestServerFailure">>
    /\ rpc' = "idle"
    /\ UNCHANGED <<uiVars, extVars, probed, mode, runs, stCached, preferTop, servers, chosen, best,
                   results, download_out, upload_out, dthread, uthread, attempts,
                   initRun, listed>>

\* Lines 33-36, 55-58, 60-63: st.get_best_server() raises and is swallowed.
InitDefaultFails ==
    /\ rpc = "init_default"
    /\ ncalls' = [ncalls EXCEPT !.best_default = @ + 1]
    /\ failures' = failures \cup {"best_default"}
    /\ servers' = <<>>
    /\ chosen' = None
    /\ rpc' = "run_begin"
    /\ UNCHANGED <<uiVars, extVars, probed, mode, runs, stCached, preferTop, best,
                   results, download_out, upload_out, dthread, uthread, ret,
                   attempts, initRun, listed>>

\* Lines 76-89: st is the cached client; results, download_out and
\* upload_out are created afresh.
RunBegin ==
    /\ rpc = "run_begin"
    /\ stCached
    /\ results' = InitResults
    /\ download_out' = None
    /\ upload_out' = None
    /\ rpc' = "dl_start"
    /\ UNCHANGED <<uiVars, extVars, probed, mode, runs, stCached, preferTop, servers, chosen, best,
                   dthread, uthread, ret, failures, attempts, ncalls, initRun, listed>>

\* Lines 106-107: d_thread is created and started.
DStart ==
    /\ rpc = "dl_start"
    /\ dthread' = "running"
    /\ rpc' = "dl_join"
    /\ UNCHANGED <<uiVars, extVars, probed, mode, runs, stCached, preferTop, servers, chosen, best,
                   results, download_out, upload_out, uthread, ret, failures,
                   attempts, ncalls, initRun, listed>>

\* A probe's except clause that passes instead of recording the error.
RecordError_lost(res, probe, msg) == res

\* errors[probe] = str(e) in the results dict (lines 95, 102).
RecordError(res, probe, msg) ==
    [res EXCEPT !.errors = DictSet(res.errors, probe, msg)]

\* _do_download, lines 92-93: st.download() returns bits.
DoDownloadOk ==
    /\ dthread = "running"
    /\ \E bits \in BitsVals :
           /\ download_out' = Some(bits)
           /\ probed' = [probed EXCEPT !.download = [bits |-> Some(bits), msg |-> None]]
    /\ attempts' = [attempts EXCEPT !.download = @ + 1]
    /\ dthread' = "done"
    /\ UNCHANGED <<uiVars, extVars, rpc, mode, runs, stCached, preferTop, servers, chosen,
                   best, results, upload_out, uthread, ret, failures, ncalls,
                   initRun, listed>>

\* _do_download, lines 92-95: st.download() raises e.
DoDownloadFails ==
    /\ dthread = "running"
    /\ \E msg \in Msgs :
           /\ results' = RecordError(results, "download", msg)
           /\ probed' = [probed EXCEPT !.download = [bits |-> None, msg |-> Some(msg)]]
    /\ attempts' = [attempts EXCEPT !.download = @ + 1]
    /\ failures' = failures \cup {"download"}
    /\ dthread' = "done"
    /\ UNCHANGED <<uiVars, extVars, rpc, mode, runs, stCached, preferTop, servers, chosen,
                   best, download_out, upload_out, uthread, ret, ncalls, initRun, listed>>

\* d_thread.join() returning although d_thread may still run.
DJoin_nowait ==
    /\ rpc = "dl_join"
    /\ rpc' = "ul_start"
    /\ UNCHANGED <<uiVars, extVars, probed, mode, runs, stCached, preferTop, servers, chosen, best,
                   results, download_out, upload_out, dthread, uthread, ret,
                   failures, attempts, ncalls, initRun, listed>>

\* Line 108: d_thread.join() returns once d_thread has ended.
DJoin ==
    /\ rpc = "dl_join"
    /\ dthread = "done"
    /\ rpc' = "ul_start"
    /\ UNCHANGED <<uiVars, extVars, probed, mode, runs, stCached, preferTop, servers, chosen, best,
                   results, download_out, upload_out, dthread, uthread, ret,
                   failures, attempts, ncalls, initRun, listed>>

\* Lines 111-112: u_thread is created and started.
UStart ==
    /\ rpc = "ul_start"
    /\ uthread' = "running"
    /\ rpc' = "ul_join"
    /\ UNCHANGED <<uiVars, extVars, probed, mode, runs, stCached, preferTop, servers, chosen, best,
                   results, download_out, upload_out, dthread, ret, failures,
                   attempts, ncalls, initRun, listed>>

\* _do_upload, lines 98-100: st.upload(pre_allocate=False) returns bits.
DoUploadOk ==
    /\ uthread = "running"
    /\ \E bits \in BitsVals :
           /\ upload_out' = Some(bits)
           /\ probed' = [probed EXCEPT !.upload = [bits |-> Some(bits), msg |-> None]]
    /\ attempts' = [attempts EXCEPT !.upload = @ + 1]
    /\ uthread' = "done"
    /\ UNCHANGED <<uiVars, extVars, rpc, mode, runs, stCached, preferTop, servers, chosen,
                   best, results, download_out, dthread, ret, failures, ncalls,
                   initRun, listed>>

\* _do_upload, lines 98-102: st.upload() raises e.
DoUploadFails ==
    /\ uthread = "running"
    /\ \E msg \in Msgs :
           /\ results' = RecordError(results, "upload", msg)
           /\ probed' = [probed EXCEPT !.upload = [bits |-> None, msg |-> Some(msg)]]
    /\ attempts' = [attempts EXCEPT !.upload = @ + 1]
    /\ failures' = failures \cup {"upload"}
    /\ uthread' = "done"
    /\ UNCHANGED <<uiVars, extVars, rpc, mode, runs, stCached, preferTop, servers, chosen,
                   best, download_out, upload_out, dthread, ret, ncalls, initRun, listed>>

\* Line 113: u_thread.join() returns once u_thread has ended.
UJoin ==
    /\ rpc = "ul_join"
    /\ uthread = "done"
    /\ rpc' = "collect"
    /\ UNCHANGED <<uiVars, extVars, probed, mode, runs, stCached, preferTop, servers, chosen, best,
                   results, download_out, upload_out, dthread, uthread, ret,
                   failures, attempts, ncalls, initRun, listed>>

\* results[key] = float(out['bits']) if 'bits' in out (lines 115-118).
BpsOf(out) == IF out # None THEN Some(Float(out[1])) ELSE None

\* Lines 115-118.
Collect ==
    /\ rpc = "collect"
    /\ results' = [results EXCEPT !.download_bps = BpsOf(download_out),
                                  !.upload_bps = BpsOf(upload_out)]
    /\ rpc' = "read_results"
    /\ UNCHANGED <<uiVars, extVars, probed, mode, runs, stCached, preferTop, servers, chosen, best,
                   download_out, upload_out, dthread, uthread, ret, failures,
                   attempts, ncalls, initRun, listed>>

\* The last-results state st.results can expose: an object with attributes
\* ("object"), an object whose dict() carries the values ("method", or
\* "method_raises" when dict() raises), or a dict ("dict").
RsInputs ==
    [kind : RsKinds \ {"raises"}, ping : PingVals, server : ServerDescs,
     client : ClientDescs]

\* Lines 124-130: getattr(rs, 'ping', None), else rs.get('ping'), else None.
ReadPing(rs) ==
    CASE rs.kind = "object" -> rs.ping
      [] rs.kind = "dict" -> rs.ping
      [] OTHER -> None

\* Lines 132-150: getattr(rs, f, None), else rs.dict().get(f), else
\* rs.get(f) on a dict; None when any of them raises.
ReadDesc(rs, f) ==
    CASE rs.kind = "object" -> rs[f]
      [] rs.kind = "method" -> rs[f]
      [] rs.kind = "dict" -> rs[f]
      [] OTHER -> None

\* Lines 120-150 with st.results available.
ReadResultsOk ==
    /\ rpc = "read_results"
    /\ \E rs \in RsInputs :
           results' = [results EXCEPT !.ping_ms = ReadPing(rs),
                                      !.server = ReadDesc(rs, "server"),
                                      !.client = ReadDesc(rs, "client")]
    /\ rpc' = "finish"
    /\ UNCHANGED <<uiVars, extVars, probed, mode, runs, stCached, preferTop, servers, chosen, best,
                   download_out, upload_out, dthread, uthread, ret, failures,
                   attempts, ncalls, initRun, listed>>

\* run() without the outer except clause of lines 152-154: a failure of
\* st.results leaves run() as an exception.
ReadResultsFails_raises ==
    /\ rpc = "read_results"
    /\ failures' = failures \cup {"results"}
    /\ ret' = <<"raised", "AttributeError">>
    /\ rpc' = "idle"
    /\ UNCHANGED <<uiVars, extVars, probed, mode, runs, stCached, preferTop, servers, chosen, best,
                   results, download_out, upload_out, dthread, uthread,
                   attempts, ncalls, initRun, listed>>

\* Lines 121-122, 152-154: st.results raises; the failure is ignored.
ReadResultsFails ==
    /\ rpc = "read_results"
    /\ failures' = failures \cup {"results"}
    /\ rpc' = "finish"
    /\ UNCHANGED <<uiVars, extVars, probed, mode, runs, stCached, preferTop, servers, chosen, best,
                   results, download_out, upload_out, dthread, uthread, ret,
                   attempts, ncalls, initRun, listed>>

\* Basic mode returning the whole results dict.
Prune_all(res) == res

\* Lines 158-163: the dict returned in basic mode.
Prune(res) ==
    [download_bps |-> res.download_bps, upload_bps |-> res.upload_bps,
     ping_ms |-> res.ping_ms, errors |-> res.errors]

\* Lines 157-165: run() returns.
Finish ==
    /\ rpc = "finish"
    /\ ret' = <<"returned", IF mode = "basic" THEN Prune(results) ELSE results>>
    /\ rpc' = "idle"
    /\ UNCHANGED <<uiVars, extVars, probed, mode, runs, stCached, preferTop, servers, chosen, best,
                   results, download_out, upload_out, dthread, uthread, failures,
                   attempts, ncalls, initRun, listed>>

CoreNext ==
    \/ RunInvalidMode \/ RunValidMode
    \/ InitCreateOk \/ InitCreateFails
    \/ InitGetServersOk \/ InitGetServersFails
    \/ InitPick \/ InitNoDistance
    \/ InitSeededOk \/ InitSeededFails
    \/ InitDefaultOk \/ InitDefaultFails
    \/ RunBegin
    \/ DStart \/ DoDownloadOk \/ DoDownloadFails \/ DJoin
    \/ UStart \/ DoUploadOk \/ DoUploadFails \/ UJoin
    \/ Collect \/ ReadResultsOk \/ ReadResultsFails \/ Finish

\* One SpeedTester and a caller that calls run() again and again.
CoreSpecInit == UiOff /\ CoreInit /\ ExtOff

CoreSpec == CoreSpecInit /\ [][CoreNext]_vars

\* ------------------------------------------------------- quality_ratings
\* ui_ascii.py:146-179.  Throughput is carried in units of 100000 bit/s
\* (a tenth of a Mbit/s) so that every quotient of the code is a ratio of
\* integers.  The arguments drawn below are multiples of 2500000 bit/s and
\* of 10 ms; on them the floating-point expressions of the code and the
\* exact ratios round to the same integers.

MaxBpsSteps == 42
MaxPingSteps == 31

BpsStep == 2500000
PingStep == 10

BpsArgs == {None} \cup {Some(k * BpsStep) : k \in 0..MaxBpsSteps}
PingArgs == {None} \cup {Some(k * PingStep) : k \in 0..MaxPingSteps}

\* to_mbps, lines 147-150, times ten: None counts as 0.
ToTenthMbps(bps) == IF bps = None THEN 0 ELSE bps[1] \div 100000

\* line 153, lat = latency_ms or 9999: None and 0 are both falsy.
Latency(ping) == IF ping = None \/ ping[1] = 0 THEN 9999 ELSE ping[1]

\* Python's round() of num/den: to the nearest integer, ties to even.
RoundHalfEven(num, den) ==
    LET q == num \div den
        r == num % den
    IN  IF 2 * r < den THEN q
        ELSE IF 2 * r > den THEN q + 1
        ELSE IF q % 2 = 0 THEN q ELSE q + 1

Clamp_nofloor(x) == Min(10, x)

\* max(1, min(10, x)), lines 156, 171, 173.
Clamp(x) == Max(1, Min(10, x))

\* line 156: (max(0,150-lat)/150)*8 + (min(dl,100)/100)*2
\*         = (160*max(0,150-lat) + 6*min(dl10,1000)) / 3000
GamingScore(lat, dl10) ==
    RoundHalfEven(160 * Max(0, 150 - lat) + 6 * Min(dl10, 1000), 3000)

\* lines 158-169.
StreamingScore(dl10) ==
    IF dl10 >= 1000 THEN 10
    ELSE IF dl10 >= 500 THEN 9
    ELSE IF dl10 >= 250 THEN 8
    ELSE IF dl10 >= 100 THEN 6
    ELSE IF dl10 >= 50 THEN 4
    ELSE 2

\* line 171: (max(0,300-lat)/300)*6 + (min(dl,50)/50)*4
\*         = (30*max(0,300-lat) + 12*min(dl10,500)) / 1500
BrowsingScore(lat, dl10) ==
    RoundHalfEven(30 * Max(0, 300 - lat) + 12 * Min(dl10, 500), 1500)

\* line 173: (max(0,200-lat)/200)*5 + (min(ul,20)/20)*5
\*         = (5*max(0,200-lat) + 5*min(ul10,200)) / 200
VideoCallScore(lat, ul10) ==
    RoundHalfEven(5 * Max(0, 200 - lat) + 5 * Min(ul10, 200), 200)

QualityRatings(download_bps, upload_bps, latency_ms) ==
    LET dl == ToTenthMbps(download_bps)
        ul == ToTenthMbps(upload_bps)
        lat == Latency(latency_ms)
    IN  [Gaming |-> Clamp(GamingScore(lat, dl)),
         Streaming |-> StreamingScore(dl),
         Browsing |-> Clamp(BrowsingScore(lat, dl)),
         VideoCall |-> Clamp(VideoCallScore(lat, ul))]

QualInit ==
    /\ UiOff
    /\ CoreOff
    /\ cpc = "off"
    /\ argsMode = "basic"
    /\ iters = 0
    /\ shown = <<>>
    /\ orphan = FALSE
    /\ qargs \in [dl : BpsArgs, ul : BpsArgs, ping : PingArgs]
    /\ ratings = None

\* One call of quality_ratings on the drawn arguments.
Rate ==
    /\ ratings = None
    /\ ratings' = Some(QualityRatings(qargs.dl, qargs.ul, qargs.ping))
    /\ UNCHANGED <<uiVars, coreVars, cliVars, qargs>>

QualNext == Rate

QualSpec == QualInit /\ [][QualNext]_vars

\* ------------------------------------------------------------ cli_v2.main
\* The loop of lines 26-50: every iteration calls run_with_ascii_progress
\* on tester.run(mode=args.mode), reports, and asks whether to run again.
\* The worker thread executes the steps of SpeedTester.run; the calling
\* thread and the tick loop run beside it.

\* --mode, line 15: argparse admits these two only.
ModeChoices == {"basic", "advance"}

\* The answers at the prompt that matter: 'y' or 'yes' runs again; any
\* other text, Ctrl-C and end of input leave the loop (lines 44-50).
Answers == {"y", "n"}

\* dict.get(k) on a dict modelled as a function.
Get(d, k) == IF k \in DOMAIN d THEN d[k] ELSE None

\* human_bps, lines 22-31: the value scaled to its unit, in hundredths.
HumanBps(bps) ==
    IF bps = None THEN "n/a"
    ELSE LET v == bps[1]
         IN  IF v < 1000 THEN [hundredths |-> v * 100, unit |-> "bps"]
             ELSE IF v < 1000000
                  THEN [hundredths |-> RoundHalfEven(v, 10), unit |-> "Kbps"]
             ELSE IF v < 1000000000
                  THEN [hundredths |-> RoundHalfEven(v, 10000), unit |-> "Mbps"]
             ELSE [hundredths |-> RoundHalfEven(v, 10000000), unit |-> "Gbps"]

\* ping_ms or 'n/a', line 115: None and 0 are both falsy.
PingOrNA(x) == IF x = None \/ x[1] = 0 THEN "n/a" ELSE x[1]

\* res.get('server') or {}, and its fields or 'n/a' (lines 122-142): a
\* description that is present is a non-empty dict.
DescOrNA(x) == IF x = None THEN "n/a" ELSE x[1]

\* print_table_basic, lines 107-117: the three cells it prints.
TableBasic(res) ==
    [kind |-> "table_basic",
     download |-> HumanBps(Get(res, "download_bps")),
     upload |-> HumanBps(Get(res, "upload_bps")),
     latency |-> PingOrNA(Get(res, "ping_ms"))]

\* print_table_advance, lines 119-144: the basic table, then the server
\* and client rows.
TableAdvance(res) ==
    [kind |-> "table_advance",
     server |-> DescOrNA(Get(res, "server")),
     client |-> DescOrNA(Get(res, "client"))]

\* A report that renders the tables whatever the branch (no test of line 32).
ReportOf_always(res, m) ==
    LET r == IF "res" \in DOMAIN res THEN res["res"] ELSE EmptyDict
    IN  (IF "err" \in DOMAIN res
         THEN << [kind |-> "error", err |-> res["err"]] >> ELSE << >>)
        \o (IF m = "basic" THEN << TableBasic(r) >>
            ELSE << TableBasic(r), TableAdvance(r) >>)
        \o << [kind |-> "ratings",
               scores |-> QualityRatings(Get(r, "download_bps"),
                                         Get(r, "upload_bps"),
                                         Get(r, "ping_ms"))] >>

\* What lines 32-42 print for the dict run_with_ascii_progress returned.
ReportOf(res, m) ==
    IF "err" \in DOMAIN res
    THEN << [kind |-> "error", err |-> res["err"]] >>
    ELSE LET r == IF "res" \in DOMAIN res THEN res["res"] ELSE EmptyDict
         IN  (IF m = "basic" THEN << TableBasic(r) >>
              ELSE << TableBasic(r), TableAdvance(r) >>)
             \o << [kind |-> "ratings",
                    scores |-> QualityRatings(Get(r, "download_bps"),
                                              Get(r, "upload_bps"),
                                              Get(r, "ping_ms"))] >>

\* Lines 12-24: the arguments are parsed and the SpeedTester exists.
CliInit ==
    /\ ProgressInit
    /\ pc = [p \in Procs |-> "off"]
    /\ result = EmptyDict
    /\ outcome = "pending"
    /\ retval = None
    /\ funcVal = None
    /\ stopReturns = 0
    /\ stopRaised = FALSE
    /\ calls = <<>>
    /\ CoreInit
    /\ preferTop = PreferNearbyTop(MaxNearby)
    /\ cpc = "top"
    /\ argsMode \in ModeChoices
    /\ iters = 0
    /\ shown = <<>>
    /\ orphan = FALSE
    /\ qargs = [dl |-> None, ul |-> None, ping |-> None]
    /\ ratings = None

\* Lines 27-31 and ui_ascii.py:88-101: the banner is printed and
\* run_with_ascii_progress begins with a new ASCIIProgress, result = {} and
\* a new worker thread object. A tick loop of the previous ASCIIProgress
\* that is still alive runs on.
CliCall ==
    /\ cpc = "top"
    /\ iters < MaxRuns
    /\ iters' = iters + 1
    /\ shown' = << [kind |-> "starting"] >>
    /\ cpc' = "call"
    /\ orphan' = (orphan \/ \E t \in TickIds : tstate[t] \in {"poll", "write"})
    /\ stopFlag' = FALSE
    /\ thread' = 0
    /\ tstate' = [t \in TickIds |-> "none"]
    /\ nthreads' = 0
    /\ written' = 0
    /\ pc' = [p \in Procs |-> CASE p = "main" -> "m_spawn"
                                [] p = "worker" -> "w_new"
                                [] OTHER -> "off"]
    /\ result' = EmptyDict
    /\ outcome' = "pending"
    /\ retval' = None
    /\ funcVal' = None
    /\ stopReturns' = 0
    /\ stopRaised' = FALSE
    /\ calls' = <<>>
    /\ UNCHANGED <<term, coreVars, argsMode, qualVars>>

\* run_func, line 30: the worker calls tester.run(mode=args.mode).
CliRunCall ==
    /\ pc["worker"] = "w_func"
    /\ runs < iters
    /\ RunValidMode
    /\ mode' = argsMode

\* The answers of the speedtest library that the CLI is run against, a part
\* of those SpeedTester.run is checked against on its own: get_servers
\* lists at most one server, a probe that returns measures 50 Mbit/s, and
\* st.results carries a ping of 20 ms and both descriptions, or nothing.
CliEnv ==
    /\ Len(servers) <= 1
    /\ download_out # Some(0)
    /\ upload_out # Some(0)
    /\ results.ping_ms \in {None, Some(20)}
    /\ (results.ping_ms = None) <=> (results.server = None)
    /\ (results.server = None) <=> (results.client = None)

\* The steps of SpeedTester.run after its entry, taken by the worker.
CliRunStep ==
    /\ \/ InitCreateOk \/ InitCreateFails
       \/ InitGetServersOk \/ InitGetServersFails
       \/ InitPick \/ InitNoDistance
       \/ InitSeededOk \/ InitSeededFails
       \/ InitDefaultOk \/ InitDefaultFails
       \/ RunBegin
       \/ DStart \/ DoDownloadOk \/ DoDownloadFails \/ DJoin
       \/ UStart \/ DoUploadOk \/ DoUploadFails \/ UJoin
       \/ Collect \/ ReadResultsOk \/ ReadResultsFails \/ Finish
    /\ CliEnv'

\* ui_ascii.py:92-93: tester.run returned; result['res'] = its dict. The
\* locals of run() are gone with its frame.
CliFuncReturns ==
    /\ pc["worker"] = "w_func"
    /\ runs = iters
    /\ rpc = "idle"
    /\ ret # None
    /\ ret[1] = "returned"
    /\ result' = TargetReturned(result, ret[2])
    /\ funcVal' = Some(ret[2])
    /\ outcome' = "returned"
    /\ pc' = [pc EXCEPT !["worker"] = "w_finally"]
    /\ results' = InitResults
    /\ download_out' = None
    /\ upload_out' = None
    /\ ret' = None
    /\ UNCHANGED <<reporterVars, retval, stopReturns, stopRaised, calls, extVars,
                   rpc, mode, runs, stCached, preferTop, servers, chosen, best,
                   dthread, uthread, failures, attempts, ncalls, initRun,
                   listed, probed>>

\* ui_ascii.py:92, 94-95: tester.run raised; result['err'] = the exception.
CliFuncRaises ==
    /\ pc["worker"] = "w_func"
    /\ runs = iters
    /\ rpc = "idle"
    /\ ret # None
    /\ ret[1] = "raised"
    /\ result' = TargetRaised(result, ret[2])
    /\ funcVal' = Some(ret[2])
    /\ outcome' = "raised"
    /\ pc' = [pc EXCEPT !["worker"] = "w_finally"]
    /\ results' = InitResults
    /\ download_out' = None
    /\ upload_out' = None
    /\ ret' = None
    /\ UNCHANGED <<reporterVars, retval, stopReturns, stopRaised, calls, extVars,
                   rpc, mode, runs, stCached, preferTop, servers, chosen, best,
                   dthread, uthread, failures, attempts, ncalls, initRun,
                   listed, probed>>

\* The tick loop of an earlier iteration's reporter, never stopped, writes
\* another progress line (ui_ascii.py:58-79).
OrphanTick ==
    /\ orphan
    /\ term' = "progress"
    /\ UNCHANGED <<pc, stopFlag, thread, tstate, nthreads, written, orchVars,
                   stopReturns, stopRaised, calls, coreVars, extVars>>

\* Lines 31-42: run_with_ascii_progress has returned; the error text, or
\* the tables and the ratings, are printed.
CliReport ==
    /\ cpc = "call"
    /\ pc["main"] = "returned"
    /\ retval # None
    /\ shown' = shown \o ReportOf(retval[1], argsMode)
    /\ cpc' = "prompt"
    /\ UNCHANGED <<uiVars, coreVars, argsMode, iters, orphan, qualVars>>

\* Lines 44-50: the prompt; 'y' starts the next iteration, anything else
\* prints the farewell and leaves the loop.
CliPrompt ==
    /\ cpc = "prompt"
    /\ \E ans \in Answers :
           IF ans = "y"
           THEN /\ cpc' = "top"
                /\ shown' = shown
           ELSE /\ cpc' = "exited"
                /\ shown' = Append(shown, [kind |-> "exiting"])
    /\ UNCHANGED <<uiVars, coreVars, argsMode, iters, orphan, qualVars>>

CliWorker == CliRunCall \/ CliRunStep \/ CliFuncReturns \/ CliFuncRaises
               \/ WorkerFinally
               \/ StopSet("worker") \/ StopTest("worker") \/ StopJoin("worker")
               \/ StopJoinRaise("worker") \/ StopErase("worker")

CliNext == CliCall \/ Main \/ CliWorker \/ Tick \/ OrphanTick
             \/ CliReport \/ CliPrompt

\* The CLI with every interleaving of its threads.
CliSpec == CliInit /\ [][CliNext]_vars

\* ================================================================ claims
StopLabels == {"stop_set", "stop_test", "stop_join", "stop_erase"}

\* A tick loop that is alive, or not yet started, and so may still write.
TickAlive(t) == tstate[t] \in {"new", "poll", "write"}

\* C1: when run_with_ascii_progress returns, the reporter has been stopped:
\* its stop flag is set and no tick loop of it is alive.
C1_StoppedOnReturn ==
    pc["main"] = "returned" => (stopFlag /\ \A t \in TickIds : ~TickAlive(t))

\* C2: once the supplied operation has finished (returned or raised),
\* run_with_ascii_progress eventually returns, under fair scheduling.
C2_ReturnsOnceFuncDone == (outcome # "pending") ~> (pc["main"] = "returned")

C4_NoWriteAfterStop ==
    [][(stopReturns > 0) => ~(\E t \in TickIds : TickWrite(t))]_vars

\* The call before the one in progress was a stop() (which has returned).
PrevCallWasStop == Len(calls) >= 2 /\ calls[Len(calls) - 1] = "stop"

\* C5: stop() on a reporter never started, and a second stop() on a stopped
\* reporter, neither raise nor wait: the join is skipped or its thread has
\* already ended.
C5_StopSafe ==
    (pc["caller"] \in StopLabels /\ (nthreads = 0 \/ PrevCallWasStop)) =>
        /\ ~stopRaised
        /\ pc["caller"] = "stop_join" => (thread # 0 /\ tstate[thread] = "done")

C5_Witness ==
    /\ calls = <<"start", "stop", "stop">>
    /\ pc["caller"] = "c_idle"
    /\ stopReturns = 2
    /\ ~stopRaised

\* A call of run() has ended, by returning or by raising.
RunEnded == rpc = "idle" /\ runs > 0
RunReturned == RunEnded /\ ret # None /\ ret[1] = "returned"
RunRaised == RunEnded /\ ret # None /\ ret[1] = "raised"

BasicKeys == {"download_bps", "upload_bps", "ping_ms", "errors"}

\* C6: in every result run() returns, a probe's value is null exactly when
\* errors has the probe's key (and exactly when the probe failed), and
\* errors has no other key.
C6_NullIffError ==
    RunReturned =>
        LET r == ret[2] IN
            /\ (r.download_bps = None) <=> ("download" \in DOMAIN r.errors)
            /\ (r.upload_bps = None) <=> ("upload" \in DOMAIN r.errors)
            /\ DOMAIN r.errors \subseteq {"download", "upload"}
            /\ DOMAIN r.errors = failures \cap {"download", "upload"}

C6_Witness ==
    /\ RunReturned
    /\ DOMAIN ret[2].errors = {"download"}
    /\ ret[2].download_bps = None
    /\ ret[2].upload_bps = Some(0)

\* The probes run one after the other and at most once each: the upload
\* thread exists only once the download thread has ended.
ProbesInOrder ==
    /\ uthread # "none" => dthread = "done"
    /\ attempts.upload > 0 => attempts.download = 1
    /\ attempts.download <= 1
    /\ attempts.upload <= 1

\* C7 as stated: every run() with a valid mode attempts the download once
\* and then the upload once.
C7_EveryValidRunProbesOnce ==
    /\ ProbesInOrder
    /\ (RunEnded /\ ValidMode(mode)) => attempts = [download |-> 1, upload |-> 1]

\* C7 amended: every run() with a valid mode whose client exists (cached, or
\* created without failure) attempts the download once and then the upload
\* once, also after a failed download; a run whose client creation raises
\* attempts no probe.
C7_ProbesOnceInOrder ==
    /\ ProbesInOrder
    /\ (RunEnded /\ ValidMode(mode) /\ "create" \notin failures)
           => attempts = [download |-> 1, upload |-> 1]
    /\ (RunEnded /\ "create" \in failures)
           => attempts = [download |-> 0, upload |-> 0]

C7_Witness ==
    /\ RunReturned
    /\ "download" \in failures
    /\ attempts = [download |-> 1, upload |-> 1]
    /\ dthread = "done"
    /\ uthread = "done"

\* C8: a result returned in basic mode has exactly the four basic keys,
\* whatever server and client the last-results state exposed.
C8_BasicKeysOnly ==
    (RunReturned /\ mode = "basic") => DOMAIN ret[2] = BasicKeys

C8_Witness ==
    /\ RunReturned
    /\ mode = "basic"
    /\ results.server # None
    /\ results.client # None
    /\ DOMAIN ret[2] = BasicKeys

\* C9 as stated: run() raises only when the mode is invalid.
C9_RaisesOnlyOnInvalidMode == RunRaised => ~ValidMode(mode)

\* C9 amended: run() raises exactly when the mode is invalid or creating the
\* client fails; no failure of discovery, selection, a probe or the
\* last-results accessor makes it raise.
C9_RaisesOnlyOnModeOrCreate ==
    RunEnded =>
        /\ ret # None
        /\ (ret[1] = "raised") <=> (~ValidMode(mode) \/ "create" \in failures)
        /\ (ret[1] = "returned") <=> (ValidMode(mode) /\ "create" \notin failures)

C9_Witness ==
    /\ RunReturned
    /\ failures = {"get_servers", "best_default", "download", "upload", "results"}

\* Selection needs the default: discovery failed, no entry has a distance
\* (the list may be empty), or selecting the chosen candidate failed.
NeedsDefault ==
    \/ "get_servers" \in failures
    \/ "best_seeded" \in failures
    \/ (listed # None /\ listed[1].withd = 0)

\* C10: whenever selection needs the default, get_best_server() is called
\* once, its failure is swallowed, and the run executes both probes and
\* returns.
C10_SelectionNeverSurfaces ==
    (RunEnded /\ initRun = runs /\ NeedsDefault) =>
        /\ ncalls.best_default = 1
        /\ ret # None
        /\ ret[1] = "returned"
        /\ attempts = [download |-> 1, upload |-> 1]

C10_Witness ==
    /\ RunReturned
    /\ initRun = runs
    /\ listed = Some([n |-> 1, withd |-> 0])
    /\ "best_default" \in failures
    /\ attempts = [download |-> 1, upload |-> 1]

\* The entries of list that are strictly nearer than entry e.
Nearer(list, e) == {i \in 1 .. Len(list) : list[i].d[1] < e.d[1]}

\* The entries of list, other than the one at i, that are not farther.
NotFarther(list, i) ==
    {j \in 1 .. Len(list) : j # i /\ list[j].d[1] <= list[i].d[1]}

\* C11: the candidate handed to get_best_server carries a distance and has
\* fewer than min(prefer_nearby_top, k) entries strictly nearer than itself
\* among the k entries with a distance; every entry that is certainly among
\* those nearest is a possible choice; prefer_nearby_top is at least 1.
C11_ChosenAmongNearest ==
    /\ preferTop >= 1
    /\ rpc = "init_seeded" =>
           LET wd == WithDistance(servers)
               c == chosen[1]
           IN  /\ chosen # None
               /\ c.d # None
               /\ \E i \in 1 .. Len(servers) : servers[i] = c
               /\ Cardinality(Nearer(wd, c)) < Min(preferTop, Len(wd))
    /\ (rpc = "init_pick" /\ WithDistance(servers) # <<>>) =>
           LET wd == WithDistance(servers)
           IN  \A i \in 1 .. Len(wd) :
                   Cardinality(NotFarther(wd, i)) < preferTop
                       => ENABLED (InitPick /\ chosen' = Some(wd[i]))

C11_Witness ==
    /\ rpc = "init_seeded"
    /\ preferTop = 1
    /\ Len(servers) = 2
    /\ servers[1].d = Some(2)
    /\ servers[2].d = Some(1)
    /\ chosen = Some(servers[2])

\* The positions of run() inside _init_speedtest.
InitLabels == {"init_create", "init_servers", "init_pick", "init_seeded", "init_default"}

\* C12: over all runs of one SpeedTester, discovery and each selection call
\* happen at most once, and a run after the one that cached the client never
\* enters _init_speedtest.
C12_DiscoveryAtMostOnce ==
    /\ ncalls.get_servers <= 1
    /\ ncalls.best_seeded <= 1
    /\ ncalls.best_default <= 1
    /\ (initRun > 0 /\ runs > initRun) => rpc \notin InitLabels

C12_Witness ==
    /\ RunReturned
    /\ initRun = 1
    /\ runs = 2
    /\ best = <<>>
    /\ ncalls = [create |-> 1, get_servers |-> 1, best_seeded |-> 1, best_default |-> 1]

\* C15: a tick loop is created at most once for a reporter instance (start()
\* takes effect only from Idle, and never again after Stopped), and at most
\* one tick loop exists at any time.
C15_IdleRunningStopped ==
    /\ nthreads <= 1
    /\ Cardinality({t \in TickIds : TickAlive(t)}) <= 1

\* C16: while the stop flag stays set, a tick loop at its poll exits (it
\* never goes on to write), a loop about to write writes that one line and
\* returns to the poll, and a loop that has exited stays so.
C16_ExitsAtNextPoll ==
    [][\A t \in TickIds :
          (stopFlag /\ stopFlag') =>
              /\ tstate[t] = "poll" => tstate'[t] \in {"poll", "done"}
              /\ tstate[t] = "write" => tstate'[t] \in {"write", "poll"}
              /\ tstate[t] = "done" => tstate'[t] = "done"]_vars

C16_Witness ==
    /\ stopFlag
    /\ written >= 1
    /\ thread # 0
    /\ tstate[thread] = "done"
    /\ pc["caller"] = "stop_join"

\* C17: when a user interrupt has unwound run_with_ascii_progress, the tick
\* loop has been stopped and the progress line erased through stop().
C17_InterruptStopsReporter ==
    pc["main"] = "interrupted" =>
        /\ stopFlag
        /\ \A t \in TickIds : ~TickAlive(t)
        /\ term = "clean"

\* ---- C14: for absent or non-negative arguments, every score that
\* quality_ratings returns is an integer from 1 to 10.
Scores == {"Gaming", "Streaming", "Browsing", "VideoCall"}

C14_ScoresInRange ==
    ratings # None =>
        /\ DOMAIN ratings[1] = Scores
        /\ \A k \in Scores : ratings[1][k] \in 1..10

\* quality_ratings(0, 0, 0) has returned, and each floor applied.
C14_Witness ==
    /\ qargs = [dl |-> Some(0), ul |-> Some(0), ping |-> Some(0)]
    /\ ratings # None
    /\ ratings[1].Gaming = 1
    /\ ratings[1].Browsing = 1
    /\ ratings[1].VideoCall = 1

\* ---- C19: quality_ratings equals the reference formulas, with the
\* latency equal to ping_ms whenever ping_ms is present (0 included) and
\* 9999 only when it is absent.
RefLatency(ping) == IF ping = None THEN 9999 ELSE ping[1]

RefRatings(download_bps, upload_bps, ping_ms) ==
    LET dl == ToTenthMbps(download_bps)
        ul == ToTenthMbps(upload_bps)
        lat == RefLatency(ping_ms)
    IN  [Gaming |-> Clamp(GamingScore(lat, dl)),
         Streaming |-> StreamingScore(dl),
         Browsing |-> Clamp(BrowsingScore(lat, dl)),
         VideoCall |-> Clamp(VideoCallScore(lat, ul))]

C19_EqualsReference ==
    ratings # None => ratings[1] = RefRatings(qargs.dl, qargs.ul, qargs.ping)

\* ---- C13: when run_with_ascii_progress returns the error branch, the CLI
\* prints the error text and neither a table nor the ratings, and goes on
\* to the prompt; the loop is left from the prompt only.
ErrReturned == retval # None /\ "err" \in DOMAIN retval[1]

TableKinds == {"table_basic", "table_advance", "ratings"}

C13_Step ==
    /\ (cpc = "call" /\ cpc' # "call") => cpc' = "prompt"
    /\ (cpc # "exited" /\ cpc' = "exited") => cpc = "prompt"
    /\ (cpc' = "prompt" /\ ErrReturned') =>
           /\ shown' = << [kind |-> "starting"],
                          [kind |-> "error", err |-> retval'[1]["err"]] >>
           /\ \A i \in DOMAIN shown' : shown'[i].kind \notin TableKinds
    /\ (cpc = "prompt" /\ ErrReturned) => ENABLED (CliPrompt /\ cpc' = "top")

C13_ErrorPrintedLoopGoesOn == [][C13_Step]_vars

\* The first run failed, the loop went on, the second run failed as well,
\* and the CLI is at the prompt again.
C13_Witness ==
    /\ cpc = "prompt"
    /\ iters = 2
    /\ ncalls.create = 2
    /\ ErrReturned
    /\ Len(shown) = 2
    /\ shown[2].kind = "error"

\* ---- C18: when a run returns normally with a non-empty errors mapping,
\* the report shows each failed probe: what is printed for the result
\* differs from what is printed for the same result without that error.
Without(d, k) == [x \in (DOMAIN d) \ {k} |-> d[x]]

WithoutError(res, k) ==
    [res EXCEPT !["res"] = [@ EXCEPT !["errors"] = Without(@, k)]]

C18_ProbeFailureShown ==
    (cpc = "prompt" /\ retval # None /\ "res" \in DOMAIN retval[1]) =>
        /\ \A i \in DOMAIN shown : shown[i].kind # "error"
        /\ \A k \in DOMAIN retval[1]["res"]["errors"] :
               shown # << [kind |-> "starting"] >>
                          \o ReportOf(WithoutError(retval[1], k), argsMode)

\* ---- C20: a result of SpeedTester.run carries the outcomes of that run's
\* own probes and nothing else, and a run executes only while the CLI is
\* inside the run_with_ascii_progress call that started it.
ProbeKeys == {"download", "upload"}

OwnOutcomes(r) ==
    /\ DOMAIN r["errors"] = {k \in ProbeKeys : probed[k].msg # None}
    /\ \A k \in DOMAIN r["errors"] : r["errors"][k] = probed[k].msg[1]
    /\ r["download_bps"] = BpsOf(probed.download.bits)
    /\ r["upload_bps"] = BpsOf(probed.upload.bits)

RunExecuting == rpc # "idle"

C20_ResultOfThisRunOnly ==
    /\ (rpc = "idle" /\ ret # None /\ ret[1] = "returned") => OwnOutcomes(ret[2])
    /\ "res" \in DOMAIN result => OwnOutcomes(result["res"])
    /\ (retval # None /\ "res" \in DOMAIN retval[1]) => OwnOutcomes(retval[1]["res"])
    /\ RunExecuting =>
           /\ cpc = "call"
           /\ runs = iters
           /\ pc["worker"] = "w_func"
           /\ pc["main"] \notin {"m_ret", "returned"}
    /\ cpc # "call" => (runs = iters /\ ~RunExecuting)

\* The second run on the one SpeedTester, with the client cached by the
\* first, has returned a result with a failed download, and the CLI has it.
C20_Witness ==
    /\ iters = 2
    /\ initRun = 1
    /\ cpc = "prompt"
    /\ retval # None
    /\ "res" \in DOMAIN retval[1]
    /\ DOMAIN retval[1]["res"]["errors"] = {"download"}
    /\ retval[1]["res"]["upload_bps"] # None

====
